---- MODULE Spec2Model ----
(***************************************************************************)
(* Model of src/main.py: the citation formatter (parse_external_link,      *)
(* format_citations) and the chainlit handlers (on_chat_start,             *)
(* on_new_conversation, on_message).                                       *)
(*                                                                         *)
(* A Python str is a sequence of one-character strings.  The texts of the  *)
(* model are built from the characters "[", "]", ",", " ", "0", "1", "2",  *)
(* "x"; there is no sign, underscore or non-ASCII digit in them, so int()  *)
(* accepts exactly the non-empty digit strings (after strip).              *)
(***************************************************************************)
EXTENDS Integers, Sequences, FiniteSets, TLC

\* ---------------------------------------------------------------- bounds
MaxChunks == 3
MaxUrls == 2
MaxCalls == 4
MaxSessions == 2

\* ------------------------------------------------------- string helpers
Digits == <<"0", "1", "2", "3", "4", "5", "6", "7", "8", "9">>

DigitSet == {Digits[k] : k \in 1..10}

DigitVal(c) == (CHOOSE k \in 1..10 : Digits[k] = c) - 1

Whitespace == {" ", "\n"}

\* c in s
Contains(s, c) == \E k \in 1..Len(s) : s[k] = c

\* index of the first occurrence of c in s (s contains c)
Find(s, c) == CHOOSE k \in 1..Len(s) : s[k] = c /\ \A j \in 1..(k - 1) : s[j] # c

\* s.split(sep) for a one-character separator
RECURSIVE Split(_, _)
Split(s, sep) ==
    IF ~Contains(s, sep) THEN <<s>>
    ELSE LET k == Find(s, sep)
         IN  <<SubSeq(s, 1, k - 1)>> \o Split(SubSeq(s, k + 1, Len(s)), sep)

\* s.strip()
RECURSIVE Strip(_)
Strip(s) ==
    IF s = <<>> THEN s
    ELSE IF s[1] \in Whitespace THEN Strip(Tail(s))
    ELSE IF s[Len(s)] \in Whitespace THEN Strip(SubSeq(s, 1, Len(s) - 1))
    ELSE s

\* int(s) raises ValueError unless this holds
IsInt(s) == Strip(s) # <<>> /\ \A k \in 1..Len(Strip(s)) : Strip(s)[k] \in DigitSet

RECURSIVE DigitsToInt(_)
DigitsToInt(s) ==
    IF s = <<>> THEN 0
    ELSE 10 * DigitsToInt(SubSeq(s, 1, Len(s) - 1)) + DigitVal(s[Len(s)])

\* int(s)
ToInt(s) == DigitsToInt(Strip(s))

\* str(n) for n >= 0
RECURSIVE Str(_)
Str(n) == IF n < 10 THEN <<Digits[n + 1]>> ELSE Str(n \div 10) \o <<Digits[(n % 10) + 1]>>

\* sep.join(items)
RECURSIVE Join(_, _)
Join(items, sep) ==
    IF items = <<>> THEN <<>>
    ELSE IF Len(items) = 1 THEN items[1]
    ELSE items[1] \o sep \o Join(Tail(items), sep)

\* seq[k] with Python's 0-based, negative-wrapping index; err on IndexError
PyIndex(seq, k) ==
    IF k >= 0 /\ k < Len(seq) THEN [err |-> FALSE, val |-> seq[k + 1]]
    ELSE IF k < 0 /\ -k <= Len(seq) THEN [err |-> FALSE, val |-> seq[Len(seq) + k + 1]]
    ELSE [err |-> TRUE, val |-> <<>>]

HasPrefix(s, p) == Len(s) >= Len(p) /\ SubSeq(s, 1, Len(p)) = p

\* --------------------------------------------------- parse_external_link
GsPrefix == <<"g", "s", ":", "/", "/">>

PublicPrefix == <<"h", "t", "t", "p", "s", ":", "/", "/", "s", "t", "o", "r", "a", "g", "e", ".", "c", "l", "o", "u", "d", ".", "g", "o", "o", "g", "l", "e", ".", "c", "o", "m", "/">>

parse_external_link(url) ==
    IF url = <<>> THEN url
    ELSE IF HasPrefix(url, GsPrefix)
         THEN PublicPrefix \o SubSeq(url, Len(GsPrefix) + 1, Len(url))
         ELSE url

\* ----------------------------------------------------- urllib.parse.quote
\* characters quote() never escapes, restricted to those the model's URIs use,
\* plus the safe=':/' argument
QuoteSafe == {"a", "b", "c", "d", "e", "g", "h", "l", "m", "o", "p", "r", "s", "t", "u", ".", ":", "/"}

\* the only other character of the model's URIs is the space, quoted as %20
QuoteChar(c) == IF c \in QuoteSafe THEN <<c>> ELSE <<"%", "2", "0">>

RECURSIVE Quote(_)
Quote(url) == IF url = <<>> THEN <<>> ELSE QuoteChar(url[1]) \o Quote(Tail(url))

\* ------------------------------------------------------ format_citations
\* the dict `references` is an insertion-ordered sequence of (key, value)
Values(references) == {references[k].url : k \in 1..Len(references)}

\* the first key whose value is url (the for/break of lines 84-87)
KeyOf(references, url) ==
    references[CHOOSE k \in 1..Len(references) :
                   references[k].url = url /\ \A j \in 1..(k - 1) : references[j].url # url].id

\* InRange without `ref_num <= len(urls)`
InRange_NoUpper(ref_num, urls) == ref_num > 0

InRange(ref_num, urls) == ref_num <= Len(urls) /\ ref_num > 0

\* reference_str.split(',') parsed by int(): ok = FALSE is the ValueError
ParseRefNumbers(reference_str) ==
    LET toks == Split(reference_str, ",")
    IN  IF \A k \in 1..Len(toks) : IsInt(toks[k])
        THEN [ok |-> TRUE, nums |-> [k \in 1..Len(toks) |-> ToInt(toks[k])]]
        ELSE [ok |-> FALSE, nums |-> <<>>]

\* CiteOne without the `url not in references.values()` test
CiteOne_NoDedup(acc, ref_num, urls) ==
    IF acc.error \/ ~InRange(ref_num, urls) THEN acc
    ELSE LET item == PyIndex(urls, ref_num - 1)
         IN  IF item.err THEN [acc EXCEPT !.error = TRUE]
             ELSE [acc EXCEPT
                     !.references = Append(@, [id |-> acc.reference_counter,
                                               url |-> parse_external_link(item.val.uri)]),
                     !.citation_numbers = Append(@, Str(acc.reference_counter)),
                     !.reference_counter = @ + 1]

\* CiteOne without `reference_counter += 1`
CiteOne_NoIncrement(acc, ref_num, urls) ==
    IF acc.error \/ ~InRange(ref_num, urls) THEN acc
    ELSE LET item == PyIndex(urls, ref_num - 1)
         IN  IF item.err THEN [acc EXCEPT !.error = TRUE]
             ELSE LET url == parse_external_link(item.val.uri)
                  IN  IF url \notin Values(acc.references)
                      THEN [acc EXCEPT
                              !.references = Append(@, [id |-> acc.reference_counter, url |-> url]),
                              !.citation_numbers = Append(@, Str(acc.reference_counter))]
                      ELSE [acc EXCEPT
                              !.citation_numbers = Append(@, Str(KeyOf(acc.references, url)))]

\* one iteration of `for ref_num in ref_numbers`
CiteOne(acc, ref_num, urls) ==
    IF acc.error \/ ~InRange(ref_num, urls) THEN acc
    ELSE LET item == PyIndex(urls, ref_num - 1)
         IN  IF item.err THEN [acc EXCEPT !.error = TRUE]
             ELSE LET url == parse_external_link(item.val.uri)
                  IN  IF url \notin Values(acc.references)
                      THEN [acc EXCEPT
                              !.references = Append(@, [id |-> acc.reference_counter, url |-> url]),
                              !.citation_numbers = Append(@, Str(acc.reference_counter)),
                              !.reference_counter = @ + 1]
                      ELSE [acc EXCEPT
                              !.citation_numbers = Append(@, Str(KeyOf(acc.references, url)))]

RECURSIVE CiteAll(_, _, _)
CiteAll(acc, ref_numbers, urls) ==
    IF ref_numbers = <<>> THEN acc
    ELSE CiteAll(CiteOne(acc, ref_numbers[1], urls), Tail(ref_numbers), urls)

\* EmitMarker without the `if citation_numbers` test
EmitMarker_EmptyBracket(citation_numbers, reference_str, part) ==
    LET rest == PyIndex(Split(part, "]"), 1)
    IN  IF rest.err THEN [err |-> TRUE, out |-> <<>>]
        ELSE [err |-> FALSE, out |-> <<"[">> \o Join(citation_numbers, <<",", " ">>) \o <<"]">> \o rest.val]

\* the text appended for a marker that parsed
EmitMarker(citation_numbers, reference_str, part) ==
    LET rest == PyIndex(Split(part, "]"), 1)
    IN  IF rest.err THEN [err |-> TRUE, out |-> <<>>]
        ELSE IF citation_numbers # <<>>
             THEN [err |-> FALSE, out |-> <<"[">> \o Join(citation_numbers, <<",", " ">>) \o <<"]">> \o rest.val]
             ELSE [err |-> FALSE, out |-> <<"[">> \o reference_str \o <<"]">> \o rest.val]

\* the tokens before the first one int() rejects
RECURSIVE GoodPrefix(_)
GoodPrefix(toks) ==
    IF toks = <<>> \/ ~IsInt(toks[1]) THEN <<>> ELSE <<ToInt(toks[1])>> \o GoodPrefix(Tail(toks))

\* ProcessPart citing each token as soon as it is parsed, so that the tokens
\* before a bad one are cited before the ValueError
ProcessPart_Eager(st, part, urls) ==
    IF ~Contains(part, "]")
    THEN [st EXCEPT !.formatted_text = @ \o <<"[">> \o part,
                    !.kind = "noclose", !.ref_numbers = <<>>, !.citation_numbers = <<>>]
    ELSE LET reference_str == Split(part, "]")[1]
             parsed == ParseRefNumbers(reference_str)
         IN  IF ~parsed.ok
             THEN LET acc == CiteAll([st EXCEPT !.citation_numbers = <<>>],
                                     GoodPrefix(Split(reference_str, ",")), urls)
                  IN  [acc EXCEPT !.formatted_text = @ \o <<"[">> \o part,
                                  !.kind = "valueerror", !.ref_numbers = <<>>,
                                  !.citation_numbers = <<>>]
             ELSE LET acc == CiteAll([st EXCEPT !.citation_numbers = <<>>], parsed.nums, urls)
                      emit == EmitMarker(acc.citation_numbers, reference_str, part)
                  IN  [acc EXCEPT !.formatted_text = @ \o emit.out,
                                  !.error = acc.error \/ emit.err,
                                  !.kind = "parsed", !.ref_numbers = parsed.nums]

\* the body of `for part in parts[1:]`; st holds the function's locals
ProcessPart(st, part, urls) ==
    IF ~Contains(part, "]")
    THEN [st EXCEPT !.formatted_text = @ \o <<"[">> \o part,
                    !.kind = "noclose", !.ref_numbers = <<>>, !.citation_numbers = <<>>]
    ELSE LET reference_str == Split(part, "]")[1]
             parsed == ParseRefNumbers(reference_str)
         IN  IF ~parsed.ok
             THEN [st EXCEPT !.formatted_text = @ \o <<"[">> \o part,
                             !.kind = "valueerror", !.ref_numbers = <<>>, !.citation_numbers = <<>>]
             ELSE LET acc == CiteAll([st EXCEPT !.citation_numbers = <<>>], parsed.nums, urls)
                      emit == EmitMarker(acc.citation_numbers, reference_str, part)
                  IN  [acc EXCEPT !.formatted_text = @ \o emit.out,
                                  !.error = acc.error \/ emit.err,
                                  !.kind = "parsed", !.ref_numbers = parsed.nums]

RECURSIVE ReferenceLines(_)
ReferenceLines(references) ==
    IF references = <<>> THEN <<>>
    ELSE <<"[">> \o Str(references[1].id) \o <<"]", " ">> \o Quote(references[1].url) \o <<"\n">>
         \o ReferenceLines(Tail(references))

ReferencesHeader == <<"\n", "\n", "*", "*", "R", "e", "f", "e", "r", "e", "n", "c", "e", "s", ":", "*", "*", "\n">>

\* lines 100-106
ReferencesBlock(references) ==
    IF references # <<>> THEN ReferencesHeader \o ReferenceLines(references) ELSE <<>>

\* lines 52-59
FormatStart(t) ==
    [formatted_text |-> Split(t, "[")[1], references |-> <<>>, reference_counter |-> 1,
     error |-> FALSE, kind |-> "start", ref_numbers |-> <<>>, citation_numbers |-> <<>>]

RECURSIVE FormatLoop(_, _, _)
FormatLoop(st, ps, urls) ==
    IF ps = <<>> \/ st.error THEN st ELSE FormatLoop(ProcessPart(st, ps[1], urls), Tail(ps), urls)

\* format_citations(text, urls) as a function: err stands for an exception
format_citations(t, urls) ==
    LET st == FormatLoop(FormatStart(t), Tail(Split(t, "[")), urls)
    IN  [err |-> st.error, out |-> st.formatted_text \o ReferencesBlock(st.references)]

\* ------------------------------------------------------------ the state
VARIABLES
    pc,                        \* position in format_citations
    text, urls,                \* its arguments
    parts,                     \* the parts of parts[1:] still to be iterated
    formatted_text, references, reference_counter,
    error,                     \* an exception escaped format_citations
    history,                   \* per iteration: the part, its locals, the text it appended
    session,                   \* cl.user_session "conversation", per chat session
    GLOBAL_CONVERSATION_NAME,
    started,                   \* sessions whose on_chat_start has run
    sent,                      \* the messages delivered to each session
    owner,                     \* backend: the session each conversation was created for
    expired,                   \* backend: conversations that are no longer valid
    queries,                   \* backend: the converse_conversation requests received
    last,                      \* the last handler run and what the backend answered
    calls                      \* number of handlers run

fvars == <<pc, text, urls, parts, formatted_text, references, reference_counter, error, history>>

cvars == <<session, GLOBAL_CONVERSATION_NAME, started, sent, owner, expired, queries, last, calls>>

vars == <<fvars, cvars>>

None == 0

Sessions == 1..MaxSessions

\* ------------------------------------------------------------ the inputs
Chunks == {
    <<"[", "1", "]">>, <<"[", "2">>, <<"[">>, <<"]">>, <<",", " ", "1">>,
    <<",", "x", "]">>, <<"0">> }

RECURSIVE Flatten(_)
Flatten(ss) == IF ss = <<>> THEN <<>> ELSE ss[1] \o Flatten(Tail(ss))

Texts == {Flatten(cs) : cs \in UNION {[1..n -> Chunks] : n \in 0..MaxChunks}}

Uris == {
    <<>>,
    <<"g", "s", ":", "/", "/", "a", " ", "b">>,
    <<"h", "t", "t", "p", "s", ":", "/", "/", "s", "t", "o", "r", "a", "g", "e", ".", "c", "l", "o", "u", "d", ".", "g", "o", "o", "g", "l", "e", ".", "c", "o", "m", "/", "a", " ", "b">> }

UrlLists == UNION {[1..n -> [uri : Uris]] : n \in 0..MaxUrls}

\* what converse_conversation returns when it succeeds: has_metadata = FALSE is
\* a summary whose summary_with_metadata.references raises AttributeError
Responses == {
    [summary_text |-> <<"a", "[", "2", "]">>, has_metadata |-> TRUE,
     references |-> <<[uri |-> <<>>],
                      [uri |-> <<"g", "s", ":", "/", "/", "a", " ", "b">>]>>],
    [summary_text |-> <<"a", "[", "1", "]">>, has_metadata |-> FALSE, references |-> <<>>] }

NoCall == [op |-> "none", session |-> None, create |-> "none", query |-> "none",
           name |-> None, response |-> <<>>]

ChatInit ==
    /\ session = [s \in Sessions |-> None]
    /\ GLOBAL_CONVERSATION_NAME = None
    /\ started = {}
    /\ sent = [s \in Sessions |-> <<>>]
    /\ owner = <<>>
    /\ expired = {}
    /\ queries = <<>>
    /\ last = NoCall
    /\ calls = 0

FormatIdle ==
    /\ pc = "start"
    /\ parts = <<>>
    /\ formatted_text = <<>>
    /\ references = <<>>
    /\ reference_counter = 1
    /\ error = FALSE
    /\ history = <<>>

\* ------------------------------------------- format_citations, step by step
Init ==
    /\ text \in Texts
    /\ urls \in UrlLists
    /\ FormatIdle
    /\ ChatInit

\* lines 52-59
Start ==
    /\ pc = "start"
    /\ parts' = Tail(Split(text, "["))
    /\ formatted_text' = FormatStart(text).formatted_text
    /\ references' = FormatStart(text).references
    /\ reference_counter' = FormatStart(text).reference_counter
    /\ pc' = "loop"
    /\ UNCHANGED <<text, urls, error, history, cvars>>

\* lines 62-98, one iteration
Part ==
    /\ pc = "loop"
    /\ parts # <<>>
    /\ LET st == ProcessPart([formatted_text |-> formatted_text, references |-> references,
                              reference_counter |-> reference_counter, error |-> FALSE,
                              kind |-> "start", ref_numbers |-> <<>>, citation_numbers |-> <<>>],
                             parts[1], urls)
       IN  /\ formatted_text' = st.formatted_text
           /\ references' = st.references
           /\ reference_counter' = st.reference_counter
           /\ error' = st.error
           /\ pc' = IF st.error THEN "raised" ELSE "loop"
           /\ history' = Append(history,
                  [part |-> parts[1], kind |-> st.kind, ref_numbers |-> st.ref_numbers,
                   citation_numbers |-> st.citation_numbers,
                   appended |-> SubSeq(st.formatted_text, Len(formatted_text) + 1, Len(st.formatted_text)),
                   references |-> st.references, reference_counter |-> st.reference_counter])
    /\ parts' = Tail(parts)
    /\ UNCHANGED <<text, urls, cvars>>

\* lines 100-108
Finish ==
    /\ pc = "loop"
    /\ parts = <<>>
    /\ formatted_text' = formatted_text \o ReferencesBlock(references)
    /\ pc' = "done"
    /\ UNCHANGED <<text, urls, parts, references, reference_counter, error, history, cvars>>

Next == Start \/ Part \/ Finish

Spec == Init /\ [][Next]_vars

\* ------------------------------------------------------ the chat handlers
CreateOutcomes == {"ok", "unavailable"}

QueryOutcomes == {"ok", "unavailable"}

NoResponse == [summary_text |-> <<>>, has_metadata |-> FALSE, references |-> <<>>]

\* cl.Message(content, type, actions): actions = TRUE carries the
\* "new_conversation" button
Message(content, type, actions) == [content |-> content, type |-> type, actions |-> actions]

\* client.create_conversation: the name of the conversation it would create
NewName == Len(owner) + 1

\* lines 203-208: the session's name, else the global one
ResolveName(session_name, global_name) ==
    IF session_name = None THEN global_name ELSE session_name

\* Reply with an `except` that only logs
Reply_Swallow(outcome, response) ==
    IF outcome # "ok"
    THEN <<>>
    ELSE IF response.has_metadata
         THEN <<Message(format_citations(response.summary_text, response.references).out,
                        "assistant", TRUE)>>
         ELSE <<Message(response.summary_text, "assistant", TRUE)>>

\* lines 260-290: the messages sent once converse_conversation has returned
\* (outcome = "ok") or raised
Reply(outcome, response) ==
    IF outcome # "ok"
    THEN <<Message(<<"Search failed: ", outcome>>, "error", FALSE)>>
    ELSE IF response.has_metadata
         THEN LET f == format_citations(response.summary_text, response.references)
              IN  IF f.err THEN <<Message(<<"Search failed: ", "IndexError">>, "error", FALSE)>>
                  ELSE <<Message(f.out, "assistant", TRUE)>>
         ELSE <<Message(response.summary_text, "assistant", TRUE)>>

\* lines 150-174
OnChatStart(s) ==
    /\ calls < MaxCalls
    /\ s \notin started
    /\ \E c \in CreateOutcomes :
        /\ IF c = "ok"
           THEN /\ owner' = Append(owner, s)
                /\ GLOBAL_CONVERSATION_NAME' = NewName
                /\ session' = [session EXCEPT ![s] = NewName]
                /\ sent' = [sent EXCEPT ![s] = Append(@, Message(<<"Welcome">>, "system", FALSE))]
           ELSE /\ UNCHANGED <<owner, GLOBAL_CONVERSATION_NAME, session>>
                /\ sent' = [sent EXCEPT ![s] =
                       Append(@, Message(<<"Failed to initialize conversation: ", c>>, "error", FALSE))]
        /\ last' = [op |-> "on_chat_start", session |-> s, create |-> c, query |-> "none",
                    name |-> None, response |-> NoResponse]
    /\ started' = started \cup {s}
    /\ calls' = calls + 1
    /\ UNCHANGED <<expired, queries, fvars>>

\* lines 178-194; the callback runs when the user presses the button that
\* on_message attaches to an answer
OnNewConversation(s) ==
    /\ calls < MaxCalls
    /\ \E k \in 1..Len(sent[s]) : sent[s][k].actions
    /\ \E c \in CreateOutcomes :
        /\ IF c = "ok"
           THEN /\ owner' = Append(owner, s)
                /\ GLOBAL_CONVERSATION_NAME' = NewName
                /\ session' = [session EXCEPT ![s] = NewName]
                /\ sent' = [sent EXCEPT ![s] =
                       Append(@, Message(<<"Started a new conversation">>, "system", FALSE))]
           ELSE /\ UNCHANGED <<owner, GLOBAL_CONVERSATION_NAME, session>>
                /\ sent' = [sent EXCEPT ![s] =
                       Append(@, Message(<<"Failed to start new conversation: ", c>>, "error", FALSE))]
        /\ last' = [op |-> "on_new_conversation", session |-> s, create |-> c, query |-> "none",
                    name |-> None, response |-> NoResponse]
    /\ calls' = calls + 1
    /\ UNCHANGED <<started, expired, queries, fvars>>

\* lines 196-290
OnMessage(s) ==
    /\ calls < MaxCalls
    /\ s \in started
    /\ \E c \in CreateOutcomes, q \in QueryOutcomes, r \in Responses :
        LET found == ResolveName(session[s], GLOBAL_CONVERSATION_NAME)
        IN  IF found = None /\ c # "ok"
            THEN /\ sent' = [sent EXCEPT ![s] =
                        Append(@, Message(<<"Failed to initialize conversation: ", c>>, "error", FALSE))]
                 /\ last' = [op |-> "on_message", session |-> s, create |-> c, query |-> "none",
                             name |-> None, response |-> NoResponse]
                 /\ UNCHANGED <<owner, GLOBAL_CONVERSATION_NAME, session, queries>>
            ELSE LET conversation_name == IF found = None THEN NewName ELSE found
                     outcome == IF conversation_name \in expired THEN "invalid" ELSE q
                 IN  /\ IF found = None
                        THEN /\ owner' = Append(owner, s)
                             /\ GLOBAL_CONVERSATION_NAME' = conversation_name
                             /\ session' = [session EXCEPT ![s] = conversation_name]
                        ELSE UNCHANGED <<owner, GLOBAL_CONVERSATION_NAME, session>>
                     /\ queries' = Append(queries,
                            [session |-> s, name |-> conversation_name, outcome |-> outcome])
                     /\ sent' = [sent EXCEPT ![s] = @ \o Reply(outcome, r)]
                     /\ last' = [op |-> "on_message", session |-> s,
                                 create |-> IF found = None THEN c ELSE "none",
                                 query |-> outcome, name |-> conversation_name,
                                 response |-> IF outcome = "ok" THEN r ELSE NoResponse]
    /\ calls' = calls + 1
    /\ UNCHANGED <<started, expired, fvars>>

\* the backend drops a conversation (expired or deleted)
Expire(h) ==
    /\ h \in (1..Len(owner)) \ expired
    /\ expired' = expired \cup {h}
    /\ UNCHANGED <<session, GLOBAL_CONVERSATION_NAME, started, sent, owner, queries, last, calls, fvars>>

InitChat ==
    /\ text = <<>>
    /\ urls = <<>>
    /\ FormatIdle
    /\ ChatInit

NextChat ==
    \/ \E s \in Sessions : OnChatStart(s)
    \/ \E s \in Sessions : OnNewConversation(s)
    \/ \E s \in Sessions : OnMessage(s)
    \/ \E h \in 1..MaxCalls : Expire(h)

ChatSpec == InitChat /\ [][NextChat]_vars

\* ---------------------------------------------- vocabulary of the properties
\* a tail segment's bracket content (up to the first "]") and what follows it
Candidate(part) == SubSeq(part, 1, Find(part, "]") - 1)

Remainder(part) == SubSeq(part, Find(part, "]") + 1, Len(part))

IsValidIndex(n) == n >= 1 /\ n <= Len(urls)

\* the segment is a marker whose content is a comma-separated integer list
IsIntList(part) == Contains(part, "]") /\ ParseRefNumbers(Candidate(part)).ok

\* the valid indices of a segment, left to right
ValidIndices(part) ==
    IF IsIntList(part) THEN SelectSeq(ParseRefNumbers(Candidate(part)).nums, IsValidIndex) ELSE <<>>

\* the valid indices met so far, and the numbers written for them
CitedIdx == Flatten([k \in 1..Len(history) |-> ValidIndices(history[k].part)])

CitedNum == Flatten([k \in 1..Len(history) |-> history[k].citation_numbers])

Normalized(n) == parse_external_link(urls[n].uri)

\* the normalized URLs of the cited indices
CitedUrl == [k \in 1..Len(CitedIdx) |-> Normalized(CitedIdx[k])]

\* 1-based rank of us[k] among the distinct elements of us, in order of first
\* occurrence
Rank(us, k) ==
    LET first == CHOOSE m \in 1..k : us[m] = us[k] /\ \A j \in 1..(m - 1) : us[j] # us[k]
    IN  Cardinality({us[m] : m \in 1..first})

\* the table and the counter before the k-th iteration
ReferencesBefore(k) == IF k = 1 THEN <<>> ELSE history[k - 1].references

CounterBefore(k) == IF k = 1 THEN 1 ELSE history[k - 1].reference_counter

TailSegments == Tail(Split(text, "["))

AnyValidIndex == \E k \in 1..Len(TailSegments) : ValidIndices(TailSegments[k]) # <<>>

HasReferencesBlock ==
    \E k \in 1..(Len(formatted_text) - Len(ReferencesHeader) + 1) :
        SubSeq(formatted_text, k, k + Len(ReferencesHeader) - 1) = ReferencesHeader

\* ---------------------------------------------------------------- claims
\* C1: the indices of integer-list markers get the same output number exactly
\* when their normalized URLs are equal, the number is the rank of the URL in
\* order of first occurrence, and the counter is never reset: it is always one
\* more than the number of distinct URLs met so far.
C1_StableNumbering ==
    LET us == CitedUrl
        num == CitedNum
    IN  /\ Len(num) = Len(us)
        /\ \A k \in 1..Len(us) : num[k] = Str(Rank(us, k))
        /\ \A k, l \in 1..Len(us) : (num[k] = num[l]) <=> (us[k] = us[l])
        /\ pc # "start" => reference_counter = 1 + Cardinality({us[k] : k \in 1..Len(us)})

C1_Witness ==
    /\ pc = "done"
    /\ \E a, b \in 1..Len(history) :
           /\ a < b
           /\ history[a].citation_numbers # <<>>
           /\ history[b].citation_numbers = history[a].citation_numbers
           /\ ValidIndices(history[a].part) # ValidIndices(history[b].part)
    /\ Len(references) = 1

\* C2: when no marker of the text holds a valid index, the returned string is
\* the text, character for character.
C2_NoValidIndexIsIdentity ==
    (pc = "done" /\ ~AnyValidIndex) => formatted_text = text

\* C3: a marker with at least one valid index is written as "[" + the output
\* numbers + "]" followed by all of the segment after its first "]".
C3_WholeRemainderKept ==
    \A k \in 1..Len(history) :
        ValidIndices(history[k].part) # <<>> =>
            history[k].appended =
                <<"[">> \o Join(history[k].citation_numbers, <<",", " ">>) \o <<"]">>
                \o Remainder(history[k].part)

\* C4: a marker that is an integer list with every index out of range is
\* written as "[" + its content + "]" unchanged, adds nothing to the citation
\* table and leaves the counter alone.
C4_AllInvalidPreserved ==
    \A k \in 1..Len(history) :
        (IsIntList(history[k].part) /\ ValidIndices(history[k].part) = <<>>) =>
            /\ HasPrefix(history[k].appended, <<"[">> \o Candidate(history[k].part) \o <<"]">>)
            /\ history[k].references = ReferencesBefore(k)
            /\ history[k].reference_counter = CounterBefore(k)

C4_Witness ==
    \E k \in 1..Len(history) :
        /\ IsIntList(history[k].part)
        /\ ValidIndices(history[k].part) = <<>>
        /\ k > 1
        /\ ReferencesBefore(k) # <<>>
        /\ Len(urls) > 0

\* C5: a segment whose bracket content is not an integer list is copied with
\* its "[" verbatim and changes neither the citation table nor the counter,
\* so the table at the end is the one the text without that segment gives.
C5_ParseFailureHasNoEffect ==
    \A k \in 1..Len(history) :
        (Contains(history[k].part, "]") /\ ~IsIntList(history[k].part)) =>
            /\ history[k].appended = <<"[">> \o history[k].part
            /\ history[k].references = ReferencesBefore(k)
            /\ history[k].reference_counter = CounterBefore(k)
            /\ pc = "done" =>
                   references =
                       FormatLoop(FormatStart(text),
                                  SubSeq(TailSegments, 1, k - 1)
                                      \o SubSeq(TailSegments, k + 1, Len(TailSegments)),
                                  urls).references

C5_Witness ==
    /\ pc = "done"
    /\ \E k \in 1..Len(history) :
           /\ Contains(history[k].part, "]")
           /\ ~IsIntList(history[k].part)
           /\ \E t \in 1..Len(Split(Candidate(history[k].part), ",")) :
                  /\ IsInt(Split(Candidate(history[k].part), ",")[t])
                  /\ IsValidIndex(ToInt(Split(Candidate(history[k].part), ",")[t]))
           /\ k < Len(history)
           /\ history[k + 1].citation_numbers # <<>>

\* the distinct elements of us, in order of first occurrence
RECURSIVE Distinct(_)
Distinct(us) ==
    IF us = <<>> THEN <<>>
    ELSE LET front == SubSeq(us, 1, Len(us) - 1)
         IN  IF \E j \in 1..Len(front) : front[j] = us[Len(us)]
             THEN Distinct(front)
             ELSE Append(Distinct(front), us[Len(us)])

\* the References block for the URLs us
BlockOf(us) ==
    ReferencesHeader
    \o Flatten([k \in 1..Len(us) |-> <<"[">> \o Str(k) \o <<"]", " ">> \o Quote(us[k]) \o <<"\n">>])

\* C6: the output ends with a References block exactly when a valid index
\* occurred in a parsed marker; the block has one line per distinct normalized
\* URL, in assignment order, numbered 1..N; the numbers written in the inline
\* markers are exactly 1..N.
C6_ReferencesBlock ==
    pc = "done" =>
        LET us == Distinct(CitedUrl)
            block == BlockOf(us)
            num == CitedNum
        IN  /\ HasReferencesBlock <=> AnyValidIndex
            /\ AnyValidIndex =>
                   /\ Len(formatted_text) >= Len(block)
                   /\ SubSeq(formatted_text, Len(formatted_text) - Len(block) + 1,
                             Len(formatted_text)) = block
            /\ \A k \in 1..Len(references) : references[k].id = k
            /\ {ToInt(num[k]) : k \in 1..Len(num)} = 1..Len(references)
            /\ Len(references) = Len(us)

C6_Witness ==
    /\ pc = "done"
    /\ HasReferencesBlock
    /\ Len(references) = 2
    /\ Len(history) >= 2
    /\ \E k \in 1..Len(references) : Contains(references[k].url, " ")

\* C7: format_citations raises nothing (neither part.split(']')[1] nor
\* urls[n - 1] is out of bounds): it is never at a raise, and the loop runs
\* once per "[" of the text, so the call reaches its return.
C7_Total ==
    /\ ~error
    /\ pc \in {"start", "loop", "done"}
    /\ pc # "start" => Len(history) + Len(parts) = Len(TailSegments)
    /\ pc = "done" => parts = <<>>

C7_Witness ==
    /\ pc = "done"
    /\ urls = <<>>
    /\ \E k \in 1..Len(history) : IsIntList(history[k].part) /\ Len(Split(history[k].part, "]")) > 2
    /\ \E k \in 1..Len(history) : ~Contains(history[k].part, "]")

\* ------------------------------------------------------- claims, handlers
\* what on_message is to show for a response of the backend
AnswerOf(response) ==
    IF response.has_metadata
    THEN format_citations(response.summary_text, response.references).out
    ELSE response.summary_text

\* C8: every run of on_message delivers exactly one message, to its own
\* session: an error message when the creation or the query failed, and
\* otherwise the answer (formatted, or the raw summary without metadata).
C8_OneMessagePerInvocation ==
    [][(calls' # calls /\ last'.op = "on_message") =>
          /\ Len(sent'[last'.session]) = Len(sent[last'.session]) + 1
          /\ SubSeq(sent'[last'.session], 1, Len(sent[last'.session])) = sent[last'.session]
          /\ \A o \in Sessions \ {last'.session} : sent'[o] = sent[o]
          /\ IF last'.create = "unavailable" \/ last'.query \in {"unavailable", "invalid"}
             THEN sent'[last'.session][Len(sent'[last'.session])].type = "error"
             ELSE /\ sent'[last'.session][Len(sent'[last'.session])].type = "assistant"
                  /\ sent'[last'.session][Len(sent'[last'.session])].content
                         = AnswerOf(last'.response)]_vars

C8_Witness ==
    /\ last.op = "on_message"
    /\ last.query = "invalid"
    /\ sent[last.session][Len(sent[last.session])].type = "error"
    /\ \E k \in 1..Len(sent[last.session]), r \in Responses :
           /\ r.has_metadata
           /\ sent[last.session][k].type = "assistant"
           /\ sent[last.session][k].content = AnswerOf(r)
           /\ sent[last.session][k].content # r.summary_text

\* C9: a query that fails on an invalid conversation is retried at once by
\* the same session under a new conversation, and the session never sends
\* the invalid conversation again.
C9_RecoversFromInvalidHandle ==
    \A i \in 1..Len(queries) :
        queries[i].outcome = "invalid" =>
            /\ i < Len(queries)
            /\ queries[i + 1].session = queries[i].session
            /\ queries[i + 1].name # queries[i].name
            /\ \A j \in (i + 1)..Len(queries) :
                   queries[j].session = queries[i].session => queries[j].name # queries[i].name

\* C10: every query of a session carries a conversation created for that
\* session, and between two queries of a session the conversation changes
\* only to one the session has created since.
C10_OwnHandleOnly ==
    /\ \A i \in 1..Len(queries) : owner[queries[i].name] = queries[i].session
    /\ \A i, j \in 1..Len(queries) :
           (i < j /\ queries[i].session = queries[j].session /\ queries[i].name # queries[j].name) =>
               /\ owner[queries[j].name] = queries[j].session
               /\ queries[j].name > queries[i].name

====
